---- MODULE Spec2Model ----
(***************************************************************************)
(* A model of lltbms.py: the Message frame codec (construction, checksum,  *)
(* __bytes__, from_bytes, verify_checksum), one BMS.send_command exchange  *)
(* over a serial port, and the telemetry decoders of the BMS facade.       *)
(*                                                                         *)
(* Python bytes objects are sequences of integers 0..255.  An operation    *)
(* that may raise returns a record [exc, val]: exc is "" when the call     *)
(* returned val, and the name of the exception otherwise.                  *)
(***************************************************************************)
EXTENDS Integers, Sequences, FiniteSets, TLC

\* ------------------------------------------------------------ constants
START == 221
STOP == 119
READ == 165
WRITE == 90

STATUS == 3
VOLTAGE == 4
VERSION == 5
MOSFET == 226

BLOCK_CHARGE == 1
BLOCK_DISCHARGE == 2
BLOCK_BOTH == 3

ERRORS ==
  << "Cell Block Over-volt", "Cell Block Under-volt", "Battery Over-volt",
     "Battery Under-volt", "Charging Temp High", "Charging Temp Low",
     "Discharging Temp High", "Discharging Temp Low", "Charging Over-current",
     "Discharging Over-current", "Short Circuit", "IC Error", "MOSFET Lock",
     "Reserved 1", "Reserved 2", "Reserved 3" >>

\* ------------------------------------------------------------ bounds
\* Longest payload handed to Message(...) when the codec is exercised alone.
MaxPayloadLen == 256
\* Longest payload the device model enumerates byte by byte.
MaxShortLen == 3
\* Number of send_command exchanges on one port (the constructor's included).
MaxExchanges == 2

\* ------------------------------------------------------------ helpers
Min(a, b) == IF a < b THEN a ELSE b

Ok(v) == [exc |-> "", val |-> v]
Raise(e) == [exc |-> e, val |-> <<>>]
\* A result slot no call has filled yet.
Unset == [exc |-> "unset", val |-> <<>>]

\* Python's b[lo:hi] on a bytes object (0-based, clamped to the object).
Slice(b, lo, hi) ==
  IF lo >= Min(hi, Len(b)) THEN <<>> ELSE SubSeq(b, lo + 1, Min(hi, Len(b)))

\* Python's sum() over a bytes object.
\* (the range is halved so that the evaluation stays shallow on long objects)
RECURSIVE SumRange(_, _, _)
SumRange(s, lo, hi) ==
  IF lo > hi THEN 0
  ELSE IF lo = hi THEN s[lo]
  ELSE LET mid == (lo + hi) \div 2 IN
       SumRange(s, lo, mid) + SumRange(s, mid + 1, hi)

SumBytes(s) == SumRange(s, 1, Len(s))

Repeat(b, n) == [i \in 1..n |-> b]

RECURSIVE Pow2(_)
Pow2(n) == IF n = 0 THEN 1 ELSE 2 * Pow2(n - 1)

\* x >> n and x & (2^k - 1) on non-negative Python ints.
Shr(x, n) == x \div Pow2(n)
LowBits(x, k) == x % Pow2(k)

\* Two bytes, big-endian, of a value already in 0..65535.
BE16(v) == << v \div 256, v % 256 >>

\* struct.pack("B", n): one unsigned byte, struct.error outside 0..255.
StructPackB(n) ==
  IF n >= 0 /\ n <= 255 THEN Ok(<< n >>) ELSE Raise("struct.error")

\* struct.pack(">h", v): signed 16-bit big-endian, struct.error outside the
\* signed range.
StructPack_h(v) ==
  IF v >= -32768 /\ v <= 32767
    THEN Ok(BE16(IF v < 0 THEN v + 65536 ELSE v))
    ELSE Raise("struct.error")

\* ------------------------------------------------------------ Message
\* Message.__gen_checksum: ~sum(command + length + data) + 1, packed ">h".
\* On Python ints ~s is -s - 1.
gen_checksum(m) ==
  StructPack_h((-SumBytes(m.command \o m.length \o m.data) - 1) + 1)

\* Message.__init__(command, status, data, checksum); checksum = <<>> stands
\* for None (both are falsy in "if checksum:").
MessageInit(command, status, data, checksum) ==
  LET length == StructPackB(Len(data)) IN
  IF length.exc # "" THEN Raise(length.exc)
  ELSE
    LET m0 == [status |-> status, command |-> command, length |-> length.val,
               data |-> data, checksum |-> <<>>]
    IN IF checksum # <<>> THEN Ok([m0 EXCEPT !.checksum = checksum])
       ELSE LET c == gen_checksum(m0) IN
            IF c.exc # "" THEN Raise(c.exc)
            ELSE Ok([m0 EXCEPT !.checksum = c.val])

\* Message.__bytes__
ToBytes(m) ==
  << START >> \o m.status \o m.command \o m.length \o m.data \o m.checksum
    \o << STOP >>

\* Message.from_bytes(b): Message() with the defaults, then the fields are
\* overwritten from b; b[1], b[2], b[3] raise IndexError on a short b, the
\* slices never do.
from_bytes(b) ==
  LET d == MessageInit(<< STATUS >>, << READ >>, <<>>, <<>>) IN
  IF d.exc # "" THEN Raise(d.exc)
  ELSE IF Len(b) < 4 THEN Raise("IndexError")
  ELSE Ok([status |-> << b[2] >>, command |-> << b[3] >>,
           length |-> << b[4] >>,
           data |-> Slice(b, 4, 4 + b[4]),
           checksum |-> Slice(b, 4 + b[4], 5 + b[4] + 1)])

\* A verification that accepts whatever checksum the frame carries.
verify_checksum_lenient(m) ==
  LET c == gen_checksum(m) IN
  IF c.exc # "" THEN Raise(c.exc) ELSE Ok(TRUE)

\* Message.verify_checksum: TRUE/FALSE, or the exception of __gen_checksum.
verify_checksum(m) ==
  LET c == gen_checksum(m) IN
  IF c.exc # "" THEN Raise(c.exc) ELSE Ok(m.checksum = c.val)

\* ------------------------------------------------------------ telemetry
RECURSIVE GCD(_, _)
GCD(a, b) == IF b = 0 THEN a ELSE GCD(b, a % b)

Abs(x) == IF x < 0 THEN -x ELSE x

\* The value of Python's n / d (true division), kept as the reduced fraction
\* it stands for; 4000 / 1000 and 4 / 1 are the same value 4.0.
Ratio(n, d) ==
  LET g == GCD(Abs(n), d) IN [num |-> n \div g, den |-> d \div g]

\* Big-endian unsigned 16-bit value at 0-based offset off ("H").
U16At(d, off) == d[off + 1] * 256 + d[off + 2]

\* Big-endian signed 16-bit value at 0-based offset off ("h").
I16At(d, off) ==
  IF U16At(d, off) >= 32768 THEN U16At(d, off) - 65536 ELSE U16At(d, off)

\* struct.unpack(f">{n}H", d): exactly 2n bytes, or struct.error.
UnpackH(n, d) ==
  IF Len(d) # 2 * n THEN Raise("struct.error")
  ELSE Ok([i \in 1..n |-> U16At(d, 2 * (i - 1))])

\* struct.unpack(">Hh7H5B", d): exactly 23 bytes, or struct.error.
UnpackInfo(d) ==
  IF Len(d) # 23 THEN Raise("struct.error")
  ELSE Ok(<< U16At(d, 0), I16At(d, 2) >>
          \o [i \in 1..7 |-> U16At(d, 2 + 2 * i)]
          \o [i \in 1..5 |-> d[18 + i]])

\* A bit test that looks one bit too high.
BitSetOffByOne(mask, i) == LowBits(Shr(mask, i + 1), 1) = 1

\* (values[8] >> i) & 1
BitSet(mask, i) == LowBits(Shr(mask, i), 1) = 1

\* The loop of get_info over range(16): ERRORS[i] is appended when bit i of
\* the mask is set (ERRORS is 0-based in the source, 1-based here).
RECURSIVE prot_status(_, _, _)
prot_status(mask, i, acc) ==
  IF i = 16 THEN acc
  ELSE prot_status(mask, i + 1,
         IF BitSet(mask, i) THEN Append(acc, ERRORS[i + 1])
         ELSE acc)

IsLeap(y) == (y % 4 = 0 /\ y % 100 # 0) \/ y % 400 = 0

DaysIn(y, m) ==
  IF m = 2 THEN (IF IsLeap(y) THEN 29 ELSE 28)
  ELSE IF m \in {4, 6, 9, 11} THEN 30 ELSE 31

\* datetime.date(year, month, day): ValueError outside the calendar.
date(y, m, d) ==
  IF y >= 1 /\ y <= 9999 /\ m >= 1 /\ m <= 12 /\ d >= 1 /\ d <= DaysIn(y, m)
    THEN Ok([year |-> y, month |-> m, day |-> d])
    ELSE Raise("ValueError")

\* A year taken from the top five bits only.
DateYearTopFive(raw) == 2000 + Shr(raw, 11)

\* The three expressions get_info hands to date(...).
DateYear(raw) == 2000 + Shr(raw, 9)
DateMonth(raw) == LowBits(Shr(raw, 5), 4)
DateDay(raw) == LowBits(raw, 5)

\* (ntc - 2731) / 10 * 9/5 + 32, as the exact value of the expression.
NtcFahrenheit(ntc) == Ratio((ntc - 2731) * 9 + 1600, 50)

\* The body of get_info after send_command returned a frame with this data.
info_of(data) ==
  LET u == UnpackInfo(Slice(data, 0, 23)) IN
  IF u.exc # "" THEN Raise(u.exc)
  ELSE
    LET values == u.val
        prot == prot_status(values[9], 0, <<>>)
        dt == date(DateYear(values[6]), DateMonth(values[6]),
                   DateDay(values[6]))
    IN IF dt.exc # "" THEN Raise(dt.exc)
       ELSE
         LET ntc == UnpackH(values[14], Slice(data, 23, Len(data))) IN
         IF ntc.exc # "" THEN Raise(ntc.exc)
         ELSE Ok([Voltage |-> Ratio(values[1], 100),
                  Current |-> Ratio(values[2], 100),
                  ResidualCapacity |-> Ratio(values[3], 100),
                  NominalCapacity |-> Ratio(values[4], 100),
                  CycleLife |-> values[5],
                  ProductDate |-> dt.val,
                  BalanceStatus |-> values[7],
                  BalanceStatusHigh |-> values[8],
                  ProtectionStatus |-> prot,
                  Version |-> Ratio(values[10], 10),
                  RelativeSOC |-> values[11],
                  FETStatus |-> values[12],
                  NTCTemp |-> [i \in 1..Len(ntc.val) |->
                                 NtcFahrenheit(ntc.val[i])]])

\* A decoder that ignores a trailing odd byte.
voltages_of_truncating(data) ==
  LET num_cells == Len(data) \div 2
      u == UnpackH(num_cells, Slice(data, 0, 2 * num_cells))
  IN IF u.exc # "" THEN Raise(u.exc)
     ELSE Ok([i \in 1..Len(u.val) |-> Ratio(u.val[i], 1000)])

\* The body of get_voltages after send_command returned a frame with this
\* data.
voltages_of(data) ==
  LET num_cells == Len(data) \div 2
      u == UnpackH(num_cells, data)
  IN IF u.exc # "" THEN Raise(u.exc)
     ELSE Ok([i \in 1..Len(u.val) |-> Ratio(u.val[i], 1000)])

\* bytes.decode("utf-8"), strict: the code points, or UnicodeDecodeError.
IsCont(b, lo, hi) == b >= lo /\ b <= hi

RECURSIVE Utf8Decode(_)
Utf8Decode(s) ==
  IF s = <<>> THEN Ok(<<>>)
  ELSE
    LET b == s[1]
        n == IF b < 128 THEN 1
             ELSE IF b >= 194 /\ b <= 223 THEN 2
             ELSE IF b >= 224 /\ b <= 239 THEN 3
             ELSE IF b >= 240 /\ b <= 244 THEN 4
             ELSE 0
        lo2 == IF b = 224 THEN 160 ELSE IF b = 240 THEN 144 ELSE 128
        hi2 == IF b = 237 THEN 159 ELSE IF b = 244 THEN 143 ELSE 191
        wellFormed ==
          /\ n > 0
          /\ Len(s) >= n
          /\ (n >= 2 => IsCont(s[2], lo2, hi2))
          /\ (n >= 3 => IsCont(s[3], 128, 191))
          /\ (n >= 4 => IsCont(s[4], 128, 191))
        c2 == IF Len(s) >= 2 THEN s[2] % 64 ELSE 0
        c3 == IF Len(s) >= 3 THEN s[3] % 64 ELSE 0
        c4 == IF Len(s) >= 4 THEN s[4] % 64 ELSE 0
        cp == IF n = 1 THEN b
              ELSE IF n = 2 THEN ((b % 32) * 64) + c2
              ELSE IF n = 3 THEN ((b % 16) * 4096) + (c2 * 64) + c3
              ELSE ((b % 8) * 262144) + (c2 * 4096) + (c3 * 64) + c4
    IN IF ~wellFormed THEN Raise("UnicodeDecodeError")
       ELSE LET rest == Utf8Decode(SubSeq(s, n + 1, Len(s))) IN
            IF rest.exc # "" THEN Raise(rest.exc)
            ELSE Ok(<< cp >> \o rest.val)

\* The body of get_version: "LH-" + response.data.decode("utf-8"), as code
\* points.
version_of(data) ==
  LET t == Utf8Decode(data) IN
  IF t.exc # "" THEN Raise(t.exc) ELSE Ok(<< 76, 72, 45 >> \o t.val)

\* ------------------------------------------------------------ state
VARIABLES
  \* BMS facade and the exchange in progress
  constructed,  \* BMS.__init__ has returned
  op,           \* the facade method being executed
  args,         \* send_command's arguments: [command, mode, data]
  pc,           \* the statement of the method about to be executed
  n,            \* exchanges started on this port so far
  first,        \* what self.port.read() returned
  response,     \* START + self.port.read_until(STOP)
  message,      \* Message.from_bytes(response)
  exc,          \* the exception that ended the method: [type, msg]
  result,       \* the value the method returned
  \* the serial port
  rx,           \* bytes received from the device and not yet read
  pending,      \* requests written to the port the device has not answered
  \* history: not read by the program
  rxOwner,      \* for every byte of rx, the exchange whose reply it is part of
  readOwners,   \* the exchanges whose reply bytes this exchange has read
  written,      \* the frames this exchange has written
  sent,         \* per exchange, the frame the device sent in reply
  visited,      \* the statements this exchange has executed
  \* Message codec exercised on its own
  cArgs, cPc, cMsg, cWire, cBack, cVerify,
  \* get_info's body exercised on its own
  iData, iPc, iInfo

xVars == << constructed, op, args, pc, n, first, response, message, exc,
            result, rx, pending, rxOwner, readOwners, written, sent, visited >>
cVars == << cArgs, cPc, cMsg, cWire, cBack, cVerify >>
iVars == << iData, iPc, iInfo >>
vars == << xVars, cVars, iVars >>

NoExc == [type |-> "", msg |-> ""]
Exc(t, m) == [type |-> t, msg |-> m]

\* ------------------------------------------------------------ the device
\* The checksum a device puts on the wire: the negated sum modulo 2^16.
WireChecksum(status, payload) ==
  BE16((65536 - ((status + Len(payload) + SumBytes(payload)) % 65536)
        + 65536) % 65536)

\* A frame as the device lays it out; delta # 0 corrupts the checksum.
DeviceFrame(start, dir, status, payload, delta) ==
  << start, dir, status, Len(payload) >> \o payload
    \o BE16((U16At(WireChecksum(status, payload), 0) + delta) % 65536)
    \o << STOP >>

WellFormedFrame(dir, payload) == DeviceFrame(START, dir, 0, payload, 0)

\* The 23-byte status prefix and the NTC readings, packed as ">Hh7H5B" and
\* ">{n}H" lay them out.
InfoPayload(cycle, dateRaw, mask, ntcCount, ntcs) ==
  BE16(1320) \o BE16(65536 - 150) \o BE16(9000) \o BE16(10000) \o BE16(cycle)
    \o BE16(dateRaw) \o BE16(0) \o BE16(0) \o BE16(mask)
    \o << 33, 90, 3, 4, ntcCount >>
    \o (IF ntcs = <<>> THEN <<>>
        ELSE IF Len(ntcs) = 1 THEN BE16(ntcs[1])
        ELSE BE16(ntcs[1]) \o BE16(ntcs[2]))

RECURSIVE SeqsUpTo(_, _)
SeqsUpTo(S, k) ==
  IF k = 0 THEN { <<>> }
  ELSE LET shorter == SeqsUpTo(S, k - 1) IN
       shorter \cup { Append(q, b) : q \in shorter, b \in S }

InfoPayloads ==
  { InfoPayload(12, 10566, 5, 1, << 3001 >>),
    InfoPayload(105, 10566, 0, 0, <<>>),
    InfoPayload(13, 0, 5, 1, << 3001 >>),
    InfoPayload(12, 10566, 5, 2, << 3001 >>),
    << 5, 40 >> }

VoltagePayloads ==
  SeqsUpTo({15, 160, STOP}, MaxShortLen)
    \cup { << 0, 15, 160 >>, << 136 >>, << 15, 160, 14, 116, 16, 4 >>,
           Repeat(255, 254) }

VersionPayloads == { << 49, 46, 48 >>, << 195, 169 >>, << 255 >> }

DevicePayloads(command) ==
  IF command = STATUS THEN InfoPayloads
  ELSE IF command = VOLTAGE THEN VoltagePayloads
  ELSE IF command = VERSION THEN VersionPayloads
  ELSE { <<>> }

\* Payloads the device also sends in a damaged frame.
DamagedPayloads(command) ==
  IF command = STATUS THEN { InfoPayload(12, 10566, 5, 1, << 3001 >>) }
  ELSE IF command = VOLTAGE THEN { << 15, 160 >>, << 0, 15, 160 >> }
  ELSE IF command = VERSION THEN { << 49, 46, 48 >> }
  ELSE { <<>> }

\* What the device may put on the wire in reply to a request.
DeviceFrames(req) ==
  { WellFormedFrame(req.mode, p) : p \in DevicePayloads(req.command) }
    \cup { DeviceFrame(s, req.mode, st, p, d) :
             s \in {START, 0}, st \in {0, 128}, d \in {0, 1},
             p \in DamagedPayloads(req.command) }
    \cup { << START, STOP >> }

\* ------------------------------------------------------------ the facade
Range(s) == { s[i] : i \in 1..Len(s) }

FirstIndex(s, b) == CHOOSE i \in 1..Len(s) : s[i] = b /\ \A j \in 1..(i - 1) : s[j] # b

\* The arguments each facade method hands to send_command.
Requests ==
  { [op |-> "get_version", command |-> VERSION, mode |-> READ, data |-> <<>>],
    [op |-> "get_info", command |-> STATUS, mode |-> READ, data |-> <<>>],
    [op |-> "get_voltages", command |-> VOLTAGE, mode |-> READ, data |-> <<>>] }
  \cup { [op |-> "set_mosfet", command |-> MOSFET, mode |-> WRITE,
          data |-> << 0, m >>] :
           m \in {BLOCK_CHARGE, BLOCK_DISCHARGE, BLOCK_BOTH} }

ArgsOf(r) == [command |-> r.command, mode |-> r.mode, data |-> r.data]

Fresh(o, a, k) ==
  /\ op = o
  /\ args = a
  /\ pc = "write"
  /\ n = k
  /\ first = <<>>
  /\ response = <<>>
  /\ message = Unset
  /\ exc = NoExc
  /\ result = <<>>
  /\ readOwners = {}
  /\ written = <<>>
  /\ visited = {}

CodecIdle ==
  /\ cArgs = [command |-> 0, status |-> 0, data |-> <<>>]
  /\ cPc = "off"
  /\ cMsg = Unset
  /\ cWire = <<>>
  /\ cBack = Unset
  /\ cVerify = Unset

InfoIdle ==
  /\ iData = <<>>
  /\ iPc = "off"
  /\ iInfo = Unset

ExchangeIdle ==
  /\ constructed = FALSE
  /\ Fresh("", [command |-> 0, mode |-> 0, data |-> <<>>], 0)
  /\ rx = <<>>
  /\ pending = <<>>
  /\ rxOwner = <<>>
  /\ sent = <<>>

\* BMS.__init__: the port was opened and get_info() is about to run.
Init ==
  /\ constructed = FALSE
  /\ Fresh("get_info", [command |-> STATUS, mode |-> READ, data |-> <<>>], 1)
  /\ rx = <<>>
  /\ pending = <<>>
  /\ rxOwner = <<>>
  /\ sent = << <<>> >>
  /\ CodecIdle
  /\ InfoIdle

\* A statement raised: the method ends with the exception.
Raised(step, e) ==
  /\ pc' = "raised"
  /\ exc' = e
  /\ visited' = visited \cup {step}

Goto(step, next) ==
  /\ pc' = next
  /\ visited' = visited \cup {step}
  /\ UNCHANGED exc

\* The caller invokes another facade method on the constructed BMS.
Call ==
  /\ constructed
  /\ pc \in {"returned", "raised"}
  /\ n < MaxExchanges
  /\ \E r \in Requests :
       /\ op' = r.op
       /\ args' = ArgsOf(r)
  /\ pc' = "write"
  /\ n' = n + 1
  /\ first' = <<>>
  /\ response' = <<>>
  /\ message' = Unset
  /\ exc' = NoExc
  /\ result' = <<>>
  /\ readOwners' = {}
  /\ written' = <<>>
  /\ visited' = {}
  /\ sent' = Append(sent, <<>>)
  /\ UNCHANGED << constructed, rx, pending, rxOwner, cVars, iVars >>

\* send_command: self.port.write(bytes(Message(command, mode, data)))
Write ==
  /\ pc = "write"
  /\ LET m == MessageInit(<< args.command >>, << args.mode >>, args.data, <<>>)
     IN IF m.exc # ""
          THEN /\ Raised("write", Exc(m.exc, ""))
               /\ UNCHANGED << written, pending >>
          ELSE /\ Goto("write", "read")
               /\ written' = Append(written, ToBytes(m.val))
               /\ pending' = Append(pending, [id |-> n, command |-> args.command,
                                              mode |-> args.mode])
  /\ UNCHANGED << constructed, op, args, n, first, response, message, result,
                  rx, rxOwner, readOwners, sent, cVars, iVars >>

\* The device answers the oldest request it has not answered yet.
DeviceReply ==
  /\ pending # <<>>
  /\ \E f \in DeviceFrames(Head(pending)) :
       /\ rx' = rx \o f
       /\ rxOwner' = rxOwner \o [i \in 1..Len(f) |-> Head(pending).id]
       /\ sent' = [sent EXCEPT ![Head(pending).id] = f]
  /\ pending' = Tail(pending)
  /\ UNCHANGED << constructed, op, args, pc, n, first, response, message, exc,
                  result, readOwners, written, visited, cVars, iVars >>

\* A read of the first byte that goes on whatever the byte is.
ReadStartUnchecked ==
  /\ pc = "read"
  /\ rx # <<>>
  /\ first' = << Head(rx) >>
  /\ rx' = Tail(rx)
  /\ rxOwner' = Tail(rxOwner)
  /\ readOwners' = readOwners \cup {Head(rxOwner)}
  /\ Goto("read", "read_until")
  /\ UNCHANGED << constructed, op, args, n, response, message, result,
                  pending, written, sent, cVars, iVars >>

\* send_command: if self.port.read() != START: raise ConnectionError(...)
\* read() blocks until one byte is there.
ReadStart ==
  /\ pc = "read"
  /\ rx # <<>>
  /\ first' = << Head(rx) >>
  /\ rx' = Tail(rx)
  /\ rxOwner' = Tail(rxOwner)
  /\ readOwners' = readOwners \cup {Head(rxOwner)}
  /\ IF << Head(rx) >> # << START >>
       THEN Raised("read", Exc("ConnectionError", "Incorrect start bit"))
       ELSE Goto("read", "read_until")
  /\ UNCHANGED << constructed, op, args, n, response, message, result,
                  pending, written, sent, cVars, iVars >>

\* send_command: response = START + self.port.read_until(STOP)
\* read_until blocks until a STOP byte has been received and returns the
\* bytes up to and including the first one.
ReadUntil ==
  /\ pc = "read_until"
  /\ STOP \in Range(rx)
  /\ LET k == FirstIndex(rx, STOP) IN
       /\ response' = << START >> \o SubSeq(rx, 1, k)
       /\ rx' = SubSeq(rx, k + 1, Len(rx))
       /\ rxOwner' = SubSeq(rxOwner, k + 1, Len(rxOwner))
       /\ readOwners' = readOwners \cup Range(SubSeq(rxOwner, 1, k))
  /\ Goto("read_until", "from_bytes")
  /\ UNCHANGED << constructed, op, args, n, first, message, result, pending,
                  written, sent, cVars, iVars >>

\* send_command: message = Message.from_bytes(response)
FromBytes ==
  /\ pc = "from_bytes"
  /\ message' = from_bytes(response)
  /\ IF from_bytes(response).exc # ""
       THEN Raised("from_bytes", Exc(from_bytes(response).exc, ""))
       ELSE Goto("from_bytes", "verify_checksum")
  /\ UNCHANGED << constructed, op, args, n, first, response, result, rx,
                  pending, rxOwner, readOwners, written, sent, cVars, iVars >>

\* send_command: if not message.verify_checksum(): raise ConnectionError(...)
VerifyChecksum ==
  /\ pc = "verify_checksum"
  /\ LET v == verify_checksum(message.val) IN
       IF v.exc # "" THEN Raised("verify_checksum", Exc(v.exc, ""))
       ELSE IF ~v.val
         THEN Raised("verify_checksum", Exc("ConnectionError", "Bad Checksum"))
       ELSE Goto("verify_checksum", "status")
  /\ UNCHANGED << constructed, op, args, n, first, response, message, result,
                  rx, pending, rxOwner, readOwners, written, sent, cVars,
                  iVars >>

\* send_command: if message.command != b'\x00': raise RuntimeError(...);
\* return message
CheckStatus ==
  /\ pc = "status"
  /\ IF message.val.command # << 0 >>
       THEN Raised("status", Exc("RuntimeError", "Command Error from BMS"))
       ELSE Goto("status", "decode")
  /\ UNCHANGED << constructed, op, args, n, first, response, message, result,
                  rx, pending, rxOwner, readOwners, written, sent, cVars,
                  iVars >>

\* What the facade method makes of the frame send_command returned.
decode_of(o, m) ==
  IF o = "get_info" THEN info_of(m.data)
  ELSE IF o = "get_voltages" THEN voltages_of(m.data)
  ELSE IF o = "get_version" THEN version_of(m.data)
  ELSE Ok(m)

\* The rest of get_info, get_voltages, get_version or set_mosfet.  The
\* get_info that BMS.__init__ runs completes the construction when it returns.
Decode ==
  /\ pc = "decode"
  /\ LET r == decode_of(op, message.val) IN
       IF r.exc # ""
         THEN /\ Raised("decode", Exc(r.exc, ""))
              /\ UNCHANGED << result, constructed >>
         ELSE /\ pc' = "returned"
              /\ visited' = visited \cup {"decode"}
              /\ result' = r.val
              /\ constructed' = TRUE
              /\ UNCHANGED exc
  /\ UNCHANGED << op, args, n, first, response, message, rx, pending, rxOwner,
                  readOwners, written, sent, cVars, iVars >>

Next ==
  \/ Call
  \/ Write
  \/ DeviceReply
  \/ ReadStart
  \/ ReadUntil
  \/ FromBytes
  \/ VerifyChecksum
  \/ CheckStatus
  \/ Decode

Spec == Init /\ [][Next]_vars

\* ------------------------------------------------------------ codec alone
\* Message(command, status, data), bytes(...), Message.from_bytes(...) and
\* verify_checksum() applied in turn to arguments drawn from bounded sets.
CodecCommands == {0, STATUS, STOP, MOSFET, 255}

CodecPayloads ==
  { Repeat(b, k) : b \in {0, STOP, 255}, k \in 0..MaxPayloadLen }
    \cup SeqsUpTo({0, STOP, 255}, 2)

CodecInit ==
  /\ cArgs \in [command : CodecCommands, status : {READ, WRITE},
                data : CodecPayloads]
  /\ cPc = "init"
  /\ cMsg = Unset
  /\ cWire = <<>>
  /\ cBack = Unset
  /\ cVerify = Unset
  /\ ExchangeIdle
  /\ InfoIdle

\* Message(command, status, data)
Construct ==
  /\ cPc = "init"
  /\ cMsg' = MessageInit(<< cArgs.command >>, << cArgs.status >>, cArgs.data,
                         <<>>)
  /\ cPc' = IF cMsg'.exc # "" THEN "raised" ELSE "constructed"
  /\ UNCHANGED << cArgs, cWire, cBack, cVerify, xVars, iVars >>

\* bytes(message)
Encode ==
  /\ cPc = "constructed"
  /\ cWire' = ToBytes(cMsg.val)
  /\ cPc' = "encoded"
  /\ UNCHANGED << cArgs, cMsg, cBack, cVerify, xVars, iVars >>

\* Message.from_bytes(wire)
Parse ==
  /\ cPc = "encoded"
  /\ cBack' = from_bytes(cWire)
  /\ cPc' = IF cBack'.exc # "" THEN "raised" ELSE "parsed"
  /\ UNCHANGED << cArgs, cMsg, cWire, cVerify, xVars, iVars >>

\* parsed.verify_checksum()
Verify ==
  /\ cPc = "parsed"
  /\ cVerify' = verify_checksum(cBack.val)
  /\ cPc' = IF cVerify'.exc # "" THEN "raised" ELSE "verified"
  /\ UNCHANGED << cArgs, cMsg, cWire, cBack, xVars, iVars >>

CodecNext == Construct \/ Encode \/ Parse \/ Verify

SpecCodec == CodecInit /\ [][CodecNext]_vars

\* ------------------------------------------------------------ get_info alone
\* The body of get_info applied to status payloads whose packed date and
\* protection mask range over all 16-bit values.
\* Packed dates: 0x2946, all zero bits, all one bits, 2040-01-01, 2024-02-29
\* and the 29th of February 2023.
DateSamples == {10566, 0, 65535, 20513, 12381, 11869}

InfoInit ==
  /\ \/ \E mask \in 0..65535 :
          iData = InfoPayload(12, 10566, mask, 1, << 3001 >>)
     \/ \E d \in DateSamples :
          iData = InfoPayload(12, d, 5, 1, << 3001 >>)
  /\ iPc = "init"
  /\ iInfo = Unset
  /\ ExchangeIdle
  /\ CodecIdle

GetInfoBody ==
  /\ iPc = "init"
  /\ iInfo' = info_of(iData)
  /\ iPc' = IF iInfo'.exc # "" THEN "raised" ELSE "returned"
  /\ UNCHANGED << iData, xVars, cVars >>

InfoNext == GetInfoBody

SpecInfo == InfoInit /\ [][InfoNext]_vars

\* ------------------------------------------------------------ claims
\* The sum the checksum is taken over, from the arguments of Message(...).
ArgSum == cArgs.command + Len(cArgs.data) + SumBytes(cArgs.data)

\* C1: frame round trip. For every direction, command byte and payload of
\* length 0..255, Message(command, status, data) and __bytes__ succeed, and
\* from_bytes on the bytes gives back the status, command and data.
C1_RoundTrip ==
  (cPc # "init" /\ Len(cArgs.data) <= 255) =>
    /\ cMsg.exc = ""
    /\ (cPc \in {"parsed", "verified"} =>
          /\ cBack.val.status = << cArgs.status >>
          /\ cBack.val.command = << cArgs.command >>
          /\ cBack.val.data = cArgs.data)

\* C2: the checksum is total and modular. For every command byte and payload
\* of length 0..255 the computation raises nothing and gives the two
\* big-endian bytes of (-(command + len + sum of payload)) mod 2^16.
C2_ChecksumTotal ==
  (cPc # "init" /\ Len(cArgs.data) <= 255) =>
    /\ cMsg.exc = ""
    /\ cMsg.val.checksum = BE16((65536 - (ArgSum % 65536)) % 65536)

\* C5: length boundary. A payload of length 255 is accepted whatever its
\* bytes are, and a payload of length 256 is refused with an error, never
\* encoded with a wrapped length byte.
C5_LengthBoundary ==
  /\ (cPc # "init" /\ Len(cArgs.data) = 255) =>
        (cMsg.exc = "" /\ cMsg.val.length = << 255 >>)
  /\ (cPc # "init" /\ Len(cArgs.data) = 256) =>
        (cMsg.exc # "" /\ cPc = "raised" /\ cWire = <<>>)

\* The checksum field of a parsed frame is the one its command, length and
\* data call for, and the code can compute it.
ChecksumPasses(m) ==
  LET t == SumBytes(m.command) + SumBytes(m.length) + SumBytes(m.data) IN
  t <= 32768 /\ m.checksum = BE16((65536 - t) % 65536)

\* send_command has returned a frame to the facade method.
SendCommandReturned == pc = "decode" \/ "decode" \in visited

\* C3: in one exchange the start byte is checked first, then the checksum,
\* then the status byte, and the first failing check decides the outcome. A
\* device error (RuntimeError) is raised only for a response that began with
\* START, passed the checksum and has a nonzero command/status byte; it is of
\* another kind than the error for a bad start byte or a bad checksum
\* (ConnectionError); a frame is returned only when the checksum passed and
\* the status byte is 0x00.
C3_CheckOrder ==
  /\ exc.type = "RuntimeError" =>
       /\ pc = "raised"
       /\ exc.msg = "Command Error from BMS"
       /\ first = << START >>
       /\ message.exc = ""
       /\ ChecksumPasses(message.val)
       /\ message.val.command # << 0 >>
  /\ exc.msg \in {"Incorrect start bit", "Bad Checksum"} =>
       exc.type = "ConnectionError"
  /\ SendCommandReturned =>
       /\ first = << START >>
       /\ ChecksumPasses(message.val)
       /\ message.val.command = << 0 >>
  /\ (first # <<>> /\ first # << START >>) =>
       exc = Exc("ConnectionError", "Incorrect start bit")
  /\ ("verify_checksum" \in visited /\ ~ChecksumPasses(message.val)
        /\ SumBytes(message.val.command) + SumBytes(message.val.length)
             + SumBytes(message.val.data) <= 32768) =>
       exc = Exc("ConnectionError", "Bad Checksum")

\* A device error was raised for a frame with a good start and checksum.
C3_Witness ==
  /\ pc = "raised"
  /\ exc = Exc("RuntimeError", "Command Error from BMS")
  /\ "verify_checksum" \in visited

\* C4: when the first byte read after the request was written is not 0xDD,
\* the exchange ends with the framing error, and from_bytes, verify_checksum
\* and the telemetry decoders are never reached in that exchange.
C4_BadStartStops ==
  (first # <<>> /\ first # << START >>) =>
    /\ pc = "raised"
    /\ exc = Exc("ConnectionError", "Incorrect start bit")
    /\ visited = {"write", "read"}
    /\ response = <<>>
    /\ message = Unset
    /\ result = <<>>

\* The device's reply began with a byte other than START and was read.
C4_Witness ==
  /\ first = << 0 >>
  /\ pc = "raised"
  /\ readOwners = {n}

\* C7: get_voltages on the data of the frame send_command returned. An odd
\* length ends in an error and no list; an even length 2k gives k values in
\* payload order, the i-th being the big-endian unsigned 16-bit value of
\* bytes 2i and 2i+1 divided by 1000 (0F A0 gives [4.0]).
C7_Voltages ==
  (op = "get_voltages" /\ "decode" \in visited) =>
    LET d == message.val.data IN
    /\ Len(d) % 2 = 1 =>
         /\ pc = "raised"
         /\ exc.type = "struct.error"
         /\ result = <<>>
    /\ Len(d) % 2 = 0 =>
         /\ pc = "returned"
         /\ exc = NoExc
         /\ Len(result) = Len(d) \div 2
         /\ \A i \in 1..(Len(d) \div 2) :
              /\ result[i].den > 0
              /\ result[i].num * 1000
                   = (d[2 * i - 1] * 256 + d[2 * i]) * result[i].den
    /\ d = << 15, 160 >> => result = << [num |-> 4, den |-> 1] >>

\* get_voltages returned [4.0] for the one-cell payload 0F A0.
C7_Witness ==
  /\ op = "get_voltages"
  /\ pc = "returned"
  /\ Len(message.val.data) = 2
  /\ result = << [num |-> 4, den |-> 1] >>

\* A frame laid out as START, direction, status 0x00, length N, N payload
\* bytes, the checksum modulo 2^16 of status, length and payload, STOP.
IsWellFormed(f) ==
  /\ Len(f) >= 7
  /\ f[1] = START
  /\ f[2] \in {READ, WRITE}
  /\ f[3] = 0
  /\ Len(f) = f[4] + 7
  /\ f[Len(f)] = STOP
  /\ << f[Len(f) - 2], f[Len(f) - 1] >>
       = BE16((65536 - ((f[4] + SumBytes(SubSeq(f, 5, 4 + f[4]))) % 65536))
              % 65536)

\* The frame the device sent in reply to the request of this exchange.
SentNow == IF n >= 1 /\ n <= Len(sent) THEN sent[n] ELSE <<>>

\* C9: for every well-formed response frame the device sends, whatever its
\* length and bytes (0x77 included), step (3) reconstructs exactly the bytes
\* the device sent and send_command returns a frame whose data is the
\* payload sent.
C9_Reconstruction ==
  (IsWellFormed(SentNow) /\ readOwners = {n}) =>
    /\ "read_until" \in visited => response = SentNow
    /\ pc \in {"returned", "raised"} =>
         /\ "status" \in visited
         /\ exc.msg # "Command Error from BMS"
         /\ message.val.data = SubSeq(SentNow, 5, 4 + SentNow[4])

\* C10: strict request/response pairing. An exchange writes exactly one
\* request frame before it reads and never writes again; every byte it reads
\* is part of the reply to that request; and when it ends, by returning or
\* by raising, no byte of its reply is left unread in the port.
C10_Pairing ==
  /\ Len(written) <= 1
  /\ (visited \cap {"read", "read_until"} # {}) => Len(written) = 1
  /\ readOwners \subseteq {n}
  /\ pc \in {"returned", "raised"} => n \notin Range(rxOwner)

\* The 16-bit fields of a status payload the claims read.
DateField == U16At(iData, 10)
MaskField == U16At(iData, 16)

\* C6 as stated: the packed date 0x2946 decodes to year 2001, month 10,
\* day 6.
C6_DateAsStated ==
  (iPc # "init" /\ DateField = 10566) =>
    /\ iInfo.exc = ""
    /\ iInfo.val.ProductDate = [year |-> 2001, month |-> 10, day |-> 6]

\* C6 as amended: with year = 2000 + (raw >> 9), month = (raw >> 5) & 0xF,
\* day = raw & 0x1F, the packed date 0x2946 decodes to year 2020, month 10,
\* day 6.
C6_Date ==
  (iPc # "init" /\ DateField = 10566) =>
    /\ iInfo.exc = ""
    /\ iInfo.val.ProductDate = [year |-> 2020, month |-> 10, day |-> 6]

\* get_info's body returned for a payload whose packed date is 0x2946.
C6_Witness ==
  /\ iPc = "returned"
  /\ DateField = 10566
  /\ MaskField = 5

\* The places (0..15) of the catalog entries a list names, in list order.
CatalogIndex(name) == CHOOSE i \in 0..15 : ERRORS[i + 1] = name

\* C8: for every 16-bit protection mask the list holds ERRORS[i] exactly for
\* the i in 0..15 whose bit i is set, in increasing catalog order and without
\* duplicates; 0x0005 gives ["Cell Block Over-volt", "Battery Over-volt"] and
\* 0x0000 gives the empty list.
C8_ProtectionFlags ==
  (iPc # "init" /\ DateField = 10566) =>
    /\ iInfo.exc = ""
    /\ LET ps == iInfo.val.ProtectionStatus IN
       /\ \A k \in 1..Len(ps) : ps[k] \in Range(ERRORS)
       /\ \A i \in 0..15 :
            ((MaskField \div Pow2(i)) % 2 = 1)
              <=> (\E k \in 1..Len(ps) : ps[k] = ERRORS[i + 1])
       /\ \A k \in 1..(Len(ps) - 1) :
            CatalogIndex(ps[k]) < CatalogIndex(ps[k + 1])
       /\ MaskField = 5 => ps = << "Cell Block Over-volt", "Battery Over-volt" >>
       /\ MaskField = 0 => ps = <<>>

\* The mask 0x8421 was decoded: bits 0, 5, 10 and 15.
C8_Witness ==
  /\ iPc = "returned"
  /\ MaskField = 33825
  /\ Len(iInfo.val.ProtectionStatus) = 4

====
